---- MODULE Spec2Model ----
(***************************************************************************)
(* A model of three functions of prody/utilities/misctools.py:             *)
(*   rangeString      (lines 143-176)                                      *)
(*   dictElement      (lines 221-259)                                      *)
(*   dictElementLoop  (lines 261-288)                                      *)
(* Python strings are sequences of one-character strings, so that str(),   *)
(* str.join, str.startswith, slicing and str.format are computed and not   *)
(* assumed.  Each function has its own specification (SpecRange, SpecDict, *)
(* SpecLoop); the variables of the other functions stay idle in it.        *)
(***************************************************************************)
EXTENDS Integers, Sequences, FiniteSets, TLC

VARIABLES
    pc,       \* position of the running function
    err,      \* name of the exception that left the function, or "none"
    \* ---- rangeString
    L,        \* the argument lint as the caller passed it
    sep, rng, exc, pos,   \* the other arguments of rangeString
    ints,     \* local ints: the sorted unique values
    prev,     \* local prev
    lint,     \* local lint after line 167: the list of runs
    k,        \* position of the for loop of line 168 in ints
    result,   \* the returned string
    \* ---- dictElement and dictElementLoop
    prefix, number_multiples,  \* the arguments prefix and number_multiples
    \* ---- dictElement
    element,  \* the argument element
    de_out,   \* the mapping the call of dictElement returned
    \* ---- dictElementLoop
    PY3K,     \* the interpreter: TRUE for Python 3, FALSE for Python 2
    dict0,    \* the mapping as the caller passed it
    keys0,    \* the argument keys as the caller passed it
    dict_,    \* the caller's mapping, mutated in place
    keys,     \* local keys: the list of selected keys
    ki,       \* position of the for loop of line 269 in keys
    dict2,    \* local dict2
    finished, \* local finished
    ret       \* the returned mapping

vars == << pc, err, L, sep, rng, exc, pos, ints, prev, lint, k, result,
           element, prefix, number_multiples, de_out,
           PY3K, dict0, keys0, dict_, keys, ki, dict2, finished, ret >>

rangeVars == << L, sep, rng, exc, pos, ints, prev, lint, k, result >>
dictVars  == << element, de_out >>
argVars   == << prefix, number_multiples >>
loopVars  == << PY3K, dict0, keys0, dict_, keys, ki, dict2, finished, ret >>

None == "None"

(***************************************************************************)
(* Python strings and integers                                             *)
(***************************************************************************)

Digit == << "0", "1", "2", "3", "4", "5", "6", "7", "8", "9" >>

RECURSIVE Digits(_)
Digits(n) == IF n < 10 THEN << Digit[n + 1] >>
             ELSE Digits(n \div 10) \o << Digit[(n % 10) + 1] >>

\* str(n) of an integer
Str(n) == IF n < 0 THEN << "-" >> \o Digits(-n) ELSE Digits(n)

\* s.startswith(p)
StartsWith(s, p) == Len(p) <= Len(s) /\ SubSeq(s, 1, Len(p)) = p

\* s[n:]
From(s, n) == SubSeq(s, n + 1, Len(s))

RECURSIVE Spaces(_)
Spaces(n) == IF n <= 0 THEN << >> ELSE << " " >> \o Spaces(n - 1)

\* '{:>4}'.format(s): s right-aligned in a field of 4, never truncated
FormatRight4(s) == Spaces(4 - Len(s)) \o s

\* sep.join(parts)
RECURSIVE Join(_, _)
Join(s, parts) ==
    IF Len(parts) = 0 THEN << >>
    ELSE IF Len(parts) = 1 THEN parts[1]
    ELSE parts[1] \o s \o Join(s, Tail(parts))

Min(S) == CHOOSE x \in S : \A y \in S : x <= y

\* numpy.unique: the sorted unique values
RECURSIVE SortedSeq(_)
SortedSeq(S) == IF S = {} THEN << >>
                ELSE << Min(S) >> \o SortedSeq(S \ {Min(S)})

Range(s) == { s[j] : j \in 1..Len(s) }

Unique(s) == SortedSeq(Range(s))

\* ints[ints > -1]
SelectNonNegative(s) == SelectSeq(s, LAMBDA x : x > -1)

(***************************************************************************)
(* Inputs of rangeString                                                   *)
(***************************************************************************)

MaxLen == 3

IntDom == { -11, -2, -1, 0, 1, 2, 9, 10 }

RECURSIVE SeqsUpTo(_, _)
SeqsUpTo(S, n) ==
    IF n = 0 THEN { << >> }
    ELSE LET shorter == SeqsUpTo(S, n - 1)
         IN  shorter \cup { Append(s, x) : s \in { t \in shorter : Len(t) = n - 1 }, x \in S }

\* the list of the docstring, lines 155-158
DocExample == << 1, 2, 3, 4, 10, 15, 16, 17 >>

\* the separator and range symbol pairs of the docstring, lines 143 and 156-158
SepRng == { << << " " >>, << " ", "t", "o", " " >> >>,
            << << "," >>, << "-" >> >>,
            << << "," >>, << ":" >> >> }

RangeInputs == SeqsUpTo(IntDom, MaxLen) \cup { DocExample }

(***************************************************************************)
(* rangeString, lines 143-176                                              *)
(***************************************************************************)

\* line 175-176: one run rendered
RenderRun(l, e, r) ==
    IF Len(l) = 1 THEN Str(l[1])
    ELSE Str(l[1]) \o r \o Str(l[Len(l)] + e)

\* lines 169-172 with the test of line 169 off by one
ExtendRuns_Mutant(runs, i, p) ==
    IF i - p >= 1 THEN Append(runs, << i >>)
    ELSE [runs EXCEPT ![Len(runs)] = Append(runs[Len(runs)], i)]

\* lines 169-172: the run list after element i
ExtendRuns(runs, i, p) ==
    IF i - p > 1 THEN Append(runs, << i >>)
    ELSE [runs EXCEPT ![Len(runs)] = Append(runs[Len(runs)], i)]

IdleDict == /\ element = None /\ de_out = None

IdleLoop == /\ PY3K = TRUE /\ dict0 = << >> /\ keys0 = None /\ dict_ = << >>
            /\ keys = << >> /\ ki = 0 /\ dict2 = << >> /\ finished = FALSE
            /\ ret = None

IdleArgs == prefix = << >> /\ number_multiples = FALSE

IdleRange == /\ L = << >> /\ sep = << >> /\ rng = << >> /\ exc = FALSE
             /\ pos = FALSE /\ ints = << >> /\ prev = None /\ lint = << >>
             /\ k = 0 /\ result = None

InitRange ==
    /\ pc = "rs_unique"
    /\ err = "none"
    /\ L \in RangeInputs
    /\ \E sr \in SepRng : sep = sr[1] /\ rng = sr[2]
    /\ exc \in BOOLEAN
    /\ pos \in BOOLEAN
    /\ ints = << >> /\ prev = None /\ lint = << >> /\ k = 0 /\ result = None
    /\ IdleDict
    /\ IdleLoop
    /\ IdleArgs

\* lines 160-162
RS_Unique ==
    /\ pc = "rs_unique"
    /\ ints' = Unique(L)
    /\ IF Len(Unique(L)) = 0
       THEN /\ result' = << >>
            /\ pc' = "rs_done"
       ELSE /\ result' = result
            /\ pc' = "rs_filter"
    /\ UNCHANGED << err, L, sep, rng, exc, pos, prev, lint, k >>
    /\ UNCHANGED << dictVars, loopVars, argVars >>

\* lines 163-164
RS_Filter ==
    /\ pc = "rs_filter"
    /\ ints' = IF pos /\ ints[1] < 0 THEN SelectNonNegative(ints) ELSE ints
    /\ pc' = "rs_first"
    /\ UNCHANGED << err, L, sep, rng, exc, pos, prev, lint, k, result >>
    /\ UNCHANGED << dictVars, loopVars, argVars >>

\* lines 166-167: ints[0] raises IndexError on an empty array
RS_First ==
    /\ pc = "rs_first"
    /\ IF Len(ints) = 0
       THEN /\ err' = "IndexError"
            /\ pc' = "rs_raised"
            /\ UNCHANGED << prev, lint, k >>
       ELSE /\ prev' = ints[1]
            /\ lint' = << << ints[1] >> >>
            /\ k' = 2
            /\ pc' = "rs_loop"
            /\ err' = err
    /\ UNCHANGED << L, sep, rng, exc, pos, ints, result >>
    /\ UNCHANGED << dictVars, loopVars, argVars >>

\* lines 168-173: one pass of the for loop over ints[1:]
RS_Loop ==
    /\ pc = "rs_loop"
    /\ k <= Len(ints)
    /\ lint' = ExtendRuns(lint, ints[k], prev)
    /\ prev' = ints[k]
    /\ k' = k + 1
    /\ UNCHANGED << pc, err, L, sep, rng, exc, pos, ints, result >>
    /\ UNCHANGED << dictVars, loopVars, argVars >>

\* lines 174-176
RS_Join ==
    /\ pc = "rs_loop"
    /\ k > Len(ints)
    /\ LET e == IF exc THEN 1 ELSE 0
       IN  result' = Join(sep, [ j \in 1..Len(lint) |-> RenderRun(lint[j], e, rng) ])
    /\ pc' = "rs_done"
    /\ UNCHANGED << err, L, sep, rng, exc, pos, ints, prev, lint, k >>
    /\ UNCHANGED << dictVars, loopVars, argVars >>

(***************************************************************************)
(* Reading a rendered string back (used by the properties only)            *)
(***************************************************************************)

IsDigit(c) == \E d \in 1..10 : Digit[d] = c

DigitVal(c) == (CHOOSE d \in 1..10 : Digit[d] = c) - 1

MatchAt(s, i, p) == /\ Len(p) > 0
                    /\ i + Len(p) - 1 <= Len(s)
                    /\ SubSeq(s, i, i + Len(p) - 1) = p

\* the digits of s from position i on: the value read and the position after it
RECURSIVE ReadDigits(_, _, _)
ReadDigits(s, i, acc) ==
    IF i <= Len(s) /\ IsDigit(s[i])
    THEN ReadDigits(s, i + 1, 10 * acc + DigitVal(s[i]))
    ELSE [val |-> acc, next |-> i]

\* a decimal integer with an optional sign at position i
ReadInt(s, i) ==
    IF i <= Len(s) /\ s[i] = "-"
    THEN LET r == ReadDigits(s, i + 1, 0) IN [val |-> 0 - r.val, next |-> r.next]
    ELSE ReadDigits(s, i, 0)

\* the runs of a rendered string: << n >> for a number, << a, b >> for a range
RECURSIVE ParseRuns(_, _, _, _)
ParseRuns(s, i, sp, rg) ==
    IF i > Len(s) THEN << >>
    ELSE LET a    == ReadInt(s, i)
             isR  == MatchAt(s, a.next, rg)
             b    == ReadInt(s, a.next + Len(rg))
             run  == IF isR THEN << a.val, b.val >> ELSE << a.val >>
             after == IF isR THEN b.next ELSE a.next
         IN  IF after > Len(s) THEN << run >>
             ELSE IF MatchAt(s, after, sp)
                  THEN << run >> \o ParseRuns(s, after + Len(sp), sp, rg)
                  ELSE << run, << "unparsed" >> >>

\* the member integers of a parsed run; e = 1 when the upper bound is exclusive
RECURSIVE Interval(_, _)
Interval(a, b) == IF a > b THEN << >> ELSE << a >> \o Interval(a + 1, b)

ExpandRun(run, e) == IF Len(run) = 1 THEN << run[1] >> ELSE Interval(run[1], run[2] - e)

RECURSIVE ExpandRuns(_, _)
ExpandRuns(runs, e) ==
    IF Len(runs) = 0 THEN << >>
    ELSE ExpandRun(runs[1], e) \o ExpandRuns(Tail(runs), e)

RECURSIVE Flatten(_)
Flatten(ss) == IF Len(ss) = 0 THEN << >> ELSE ss[1] \o Flatten(Tail(ss))

ExcInt == IF exc THEN 1 ELSE 0

\* sorted(set(L)), restricted to the values >= 0 when pos is set
Expected == SortedSeq({ x \in Range(L) : pos => x >= 0 })

\* the reference rendering: the maximal intervals of the filtered set, in
\* ascending order, rendered and joined
RefSet == { x \in Range(L) : pos => x >= 0 }

RefStarts == SortedSeq({ a \in RefSet : (a - 1) \notin RefSet })

RefEnd(a) == Min({ b \in RefSet : b >= a /\ (b + 1) \notin RefSet })

RefRendering ==
    Join(sep, [ j \in 1..Len(RefStarts) |->
                 LET a == RefStarts[j]
                     b == RefEnd(a)
                 IN  IF a = b THEN Str(a) ELSE Str(a) \o rng \o Str(b + ExcInt) ])

RangeEnded == pc \in { "rs_done", "rs_raised" }

Doc1 == << "1", " ", "t", "o", " ", "4", " ", "1", "0", " ", "1", "5", " ", "t", "o", " ", "1", "7" >>
Doc2 == << "1", "-", "4", ",", "1", "0", ",", "1", "5", "-", "1", "7" >>
Doc3 == << "1", ":", "5", ",", "1", "0", ",", "1", "5", ":", "1", "8" >>

DocExamplesHold ==
    (pc = "rs_done" /\ L = DocExample) =>
        /\ (sep = << " " >> /\ ~exc) => result = Doc1
        /\ (sep = << "," >> /\ rng = << "-" >> /\ ~exc) => result = Doc2
        /\ (sep = << "," >> /\ rng = << ":" >> /\ exc) => result = Doc3

\* C1 -- for every collection L and every setting of exc and pos, rangeString
\* returns a string, and reading that string back into runs and expanding each
\* run to its members (an upper bound counting as one past the last member
\* when exc is set) gives exactly sorted(set(L)), restricted to the values >= 0
\* when pos is set.
C1_RoundTrip ==
    RangeEnded =>
        /\ pc = "rs_done"
        /\ ExpandRuns(ParseRuns(result, 1, sep, rng), ExcInt) = Expected

\* the round trip of C1 on the calls that return
RoundTripWhenReturned ==
    pc = "rs_done" => ExpandRuns(ParseRuns(result, 1, sep, rng), ExcInt) = Expected

\* C2 -- rangeString signals no error, and returns the empty string whenever
\* the deduplicated, sign-filtered set is empty (empty input, or only negative
\* values with pos enabled).
C2_NoErrorEmptyString ==
    /\ err = "none"
    /\ (RangeEnded /\ RefSet = {}) => (pc = "rs_done" /\ result = << >>)

\* the empty input returns the empty string
EmptyInputEmptyString ==
    (RangeEnded /\ L = << >>) => (pc = "rs_done" /\ result = << >>)

\* C3 -- the runs rangeString builds and renders are maximal, disjoint and
\* ascending: inside a run each element is 1 more than its predecessor,
\* between successive runs the first value of the later one is at least 2 more
\* than the last value of the earlier one, the runs laid end to end are the
\* sorted values consumed so far, and in the returned string a run of length 1
\* is a single number without the range symbol while a longer run is a range.
C3_RunsMaximal ==
    (pc \in { "rs_loop", "rs_done" }) =>
        /\ \A j \in 1..Len(lint) :
              /\ Len(lint[j]) >= 1
              /\ \A m \in 2..Len(lint[j]) : lint[j][m] = lint[j][m - 1] + 1
        /\ \A j \in 2..Len(lint) :
              lint[j][1] >= lint[j - 1][Len(lint[j - 1])] + 2
        /\ Flatten(lint) = SubSeq(ints, 1, k - 1)
        /\ pc = "rs_done" =>
              LET parsed == ParseRuns(result, 1, sep, rng)
              IN  /\ Len(parsed) = Len(lint)
                  /\ \A j \in 1..Len(lint) :
                        /\ (Len(lint[j]) = 1) <=> (Len(parsed[j]) = 1)
                        /\ parsed[j][1] = lint[j][1]

C3_Witness ==
    /\ pc = "rs_done"
    /\ Len(lint) >= 2
    /\ \E j \in 1..Len(lint) : Len(lint[j]) = 1
    /\ \E j \in 1..Len(lint) : Len(lint[j]) >= 2

\* C4 -- rangeString's output equals the reference rendering: the runs joined
\* by sep, a run of length 1 as its decimal value with no adjustment, a longer
\* run as first + rng + (last + 1 if exc else last); the three examples of the
\* docstring included.
C4_ReferenceRendering ==
    /\ RangeEnded => (pc = "rs_done" /\ result = RefRendering)
    /\ DocExamplesHold

\* the reference rendering of C4 on the calls that return
ReferenceWhenReturned ==
    /\ pc = "rs_done" => result = RefRendering
    /\ DocExamplesHold

NextRange == RS_Unique \/ RS_Filter \/ RS_First \/ RS_Loop \/ RS_Join

SpecRange == InitRange /\ [][NextRange]_vars

(***************************************************************************)
(* Python values and markup nodes                                          *)
(*                                                                         *)
(* An Element is a record [tag, text, attrib, children]: tag a string,     *)
(* text << >> for None and << s >> for the string s, attrib the list of    *)
(* (key, value) pairs that items() returns, children the list of child     *)
(* Elements.  A Python value met by dictElement is one of                  *)
(*   [str |-> s]   [items |-> l]   [node |-> e]   [map |-> d]              *)
(* where a dict d is a function from keys (strings) to Python values.      *)
(***************************************************************************)

PyStr(s)   == [str |-> s]
PyItems(l) == [items |-> l]
PyElem(e)  == [node |-> e]
PyDict(d)  == [map |-> d]

\* isinstance(v, Element), line 271
IsElement(v) == DOMAIN v = { "node" }
IsDict(v)    == DOMAIN v = { "map" }

EmptyDict == << >>

\* d[key] = val
Put(d, key, val) ==
    [ x \in (DOMAIN d) \cup { key } |-> IF x = key THEN val ELSE d[x] ]

Unbound == -1

(***************************************************************************)
(* dictElement, lines 221-259                                              *)
(***************************************************************************)

\* lines 232-233 and 239-240: the tag with the prefix removed; pfx is << >>
\* when the argument is not a string
StripPrefix(tag, pfx) ==
    IF Len(pfx) = 1 /\ Len(pfx[1]) > 0 /\ StartsWith(tag, pfx[1])
    THEN From(tag, Len(pfx[1]))
    ELSE tag

\* lines 251-257: the value stored for a child
ChildValue(child) ==
    IF Len(child.children) = 0
    THEN IF child.text = << >> THEN PyItems(child.attrib)
         ELSE PyStr(child.text[1])
    ELSE PyElem(child)

\* lines 242-246: the index of this child, given the previous tag and index
NextIndex(tag, prev_tag, i) == IF tag # prev_tag THEN 0 ELSE i + 1

\* lines 236-257: the for loop over the children from child n on, with the
\* locals dict_, prev_tag and i; i is Unbound until line 244 first runs
RECURSIVE DE_Loop(_, _, _, _, _, _, _)
DE_Loop(ch, n, d, prev_tag, i, pfx, nm) ==
    IF n > Len(ch) THEN [exc |-> "none", d |-> d]
    ELSE LET tag == StripPrefix(ch[n].tag, pfx)
         IN  IF tag = prev_tag /\ i = Unbound
             THEN [exc |-> "UnboundLocalError", d |-> EmptyDict]
             ELSE LET i2  == NextIndex(tag, prev_tag, i)
                      key == IF nm THEN tag \o FormatRight4(Str(i2)) ELSE tag
                  IN  DE_Loop(ch, n + 1, Put(d, key, ChildValue(ch[n])), tag, i2, pfx, nm)

\* dictElement(x, prefix, number_multiples) for any Python value x: the for
\* loop of line 236 iterates x, and line 237 reads .tag of what it yields.  A
\* string yields its characters, an attribute list its pairs and a dict its
\* keys, none of which has a tag.
DictElement(x, pfx, nm) ==
    IF IsElement(x)
    THEN DE_Loop(x.node.children, 1, EmptyDict, << >>, Unbound, pfx, nm)
    ELSE LET n == IF "str" \in DOMAIN x THEN Len(x.str)
                  ELSE IF "items" \in DOMAIN x THEN Len(x.items)
                  ELSE Cardinality(DOMAIN x.map)
         IN  IF n = 0 THEN [exc |-> "none", d |-> EmptyDict]
             ELSE [exc |-> "AttributeError", d |-> EmptyDict]

(***************************************************************************)
(* Inputs of dictElement                                                   *)
(***************************************************************************)

MaxChildren == 3

Tags == { << "x" >>, << "y" >>, << "p" >>, << "p", "x" >> }

Prefixes == { << >>, << << "p" >> >> }

Leaf(tag, text, attrib) ==
    [tag |-> tag, text |-> text, attrib |-> attrib, children |-> << >>]

Node(tag, children) ==
    [tag |-> tag, text |-> << >>, attrib |-> << >>, children |-> children]

SomeText == << "t" >>
SomeAttrib == << << << "a" >>, << "1" >> >> >>

\* the shapes of a child: text leaf, attribute leaf, bare leaf, composite
ChildrenOf(tag) ==
    { Leaf(tag, << SomeText >>, << >>),
      Leaf(tag, << >>, SomeAttrib),
      Leaf(tag, << >>, << >>),
      Node(tag, << Leaf(<< "y" >>, << SomeText >>, << >>) >>) }

DictChildren == UNION { ChildrenOf(t) : t \in Tags }

InitDict ==
    /\ pc = "de_call"
    /\ err = "none"
    /\ \E ch \in SeqsUpTo(DictChildren, MaxChildren) : element = Node(<< "r" >>, ch)
    /\ prefix \in Prefixes
    /\ number_multiples \in BOOLEAN
    /\ de_out = None
    /\ IdleRange
    /\ IdleLoop

\* lines 221-259: one call
DE_Call ==
    /\ pc = "de_call"
    /\ LET r == DictElement(PyElem(element), prefix, number_multiples)
       IN  /\ de_out' = r.d
           /\ err' = r.exc
           /\ pc' = IF r.exc = "none" THEN "de_done" ELSE "de_raised"
    /\ UNCHANGED << element, argVars, rangeVars, loopVars >>

NextDict == DE_Call

SpecDict == InitDict /\ [][NextDict]_vars

DictEnded == pc \in { "de_done", "de_raised" }

kids == element.children

StrippedTag(n) == StripPrefix(kids[n].tag, prefix)

\* the number of siblings before child n that have the tag of child n
Repetition(n) == Cardinality({ m \in 1..(n - 1) : StrippedTag(m) = StrippedTag(n) })

IndexedKey(n) == StrippedTag(n) \o FormatRight4(Str(Repetition(n)))

\* the value the specification gives a child, from its shape alone
ShapeValue(c) ==
    CASE Len(c.children) > 0 -> PyElem(c)
      [] Len(c.children) = 0 /\ c.text # << >> -> PyStr(c.text[1])
      [] OTHER -> PyItems(c.attrib)

\* C5 -- with number_multiples, a call of dictElement that returns gives a
\* mapping with exactly one entry per child: the n-th child is stored under
\* its tag followed by the number of earlier siblings with that tag, zero
\* based and right-aligned in a field of 4, so no two children share a key,
\* also when the siblings with the same tag are not adjacent.
C5_OneEntryPerChild ==
    (pc = "de_done" /\ number_multiples) =>
        /\ Cardinality(DOMAIN de_out) = Len(kids)
        /\ \A n \in 1..Len(kids) :
              /\ IndexedKey(n) \in DOMAIN de_out
              /\ de_out[IndexedKey(n)] = ShapeValue(kids[n])

\* the two children tagged "x" of the specification's example
TwoXExample ==
    (pc = "de_done" /\ number_multiples /\ Len(kids) = 2
       /\ StrippedTag(1) = << "x" >> /\ StrippedTag(2) = << "x" >>) =>
        DOMAIN de_out = { << "x", " ", " ", " ", "0" >>, << "x", " ", " ", " ", "1" >> }

\* C5 on the calls in which equal tags are adjacent and the call returns
C5_WhenAdjacent ==
    (pc = "de_done" /\ number_multiples
       /\ \A n \in 1..Len(kids), m \in 1..Len(kids) :
             (m < n /\ StrippedTag(m) = StrippedTag(n)) =>
                 \A j \in m..n : StrippedTag(j) = StrippedTag(n)) =>
        /\ Cardinality(DOMAIN de_out) = Len(kids)
        /\ \A n \in 1..Len(kids) :
              /\ IndexedKey(n) \in DOMAIN de_out
              /\ de_out[IndexedKey(n)] = ShapeValue(kids[n])

\* every value of the produced mapping is the shape value of the last child
\* stored under its key
ValuesFollowShape ==
    /\ \A key \in DOMAIN de_out :
          \E n \in 1..Len(kids) :
              /\ de_out[key] = ShapeValue(kids[n])
              /\ StartsWith(key, StrippedTag(n))
    /\ ~number_multiples =>
          \A n \in 1..Len(kids) :
              (\A m \in (n + 1)..Len(kids) : StrippedTag(m) # StrippedTag(n)) =>
                  /\ StrippedTag(n) \in DOMAIN de_out
                  /\ de_out[StrippedTag(n)] = ShapeValue(kids[n])

\* C6 -- dictElement never fails on a well-formed node, and maps each child to
\* a value determined only by the child's shape: the child itself when it has
\* children, its text when it has none and a text, and the list of its
\* attribute pairs (empty without attributes) when it has neither.
C6_NeverFailsShapeValue ==
    /\ err = "none"
    /\ pc = "de_done" => ValuesFollowShape

\* the value part of C6 on the calls that return
C6_ValuesWhenReturned == pc = "de_done" => ValuesFollowShape

\* C6 on the calls in which no child's tag is the prefix itself
C6_WhenNoEmptyTag ==
    (DictEnded /\ \A n \in 1..Len(kids) : StrippedTag(n) # << >>) =>
        (pc = "de_done" /\ ValuesFollowShape)

(***************************************************************************)
(* dictElementLoop, lines 261-288                                          *)
(***************************************************************************)

PyNone == [none |-> TRUE]
PyList(l) == [list |-> l]

RECURSIVE Perms(_)
Perms(S) == IF S = {} THEN { << >> }
            ELSE UNION { { << x >> \o t : t \in Perms(S \ { x }) } : x \in S }

\* lines 263-264: a str given as keys becomes the list of that one key
WrapStr(kz) == IF "str" \in DOMAIN kz THEN PyList(<< kz.str >>) ELSE kz

\* line 266: not keys, for None and for an empty list
IsFalsy(kz) == ("none" \in DOMAIN kz) \/ ("list" \in DOMAIN kz /\ Len(kz.list) = 0)

\* line 286 with a new mapping allocated for the result
StoreResult_Mutant(d, orig_key, d2) == Put(EmptyDict, orig_key, PyDict(d2))

\* line 286: dict_[orig_key] = dict2
StoreResult(d, orig_key, d2) == Put(d, orig_key, PyDict(d2))

\* lines 263-267; dict_.keys() lists the keys in the mapping's own order
DL_Keys ==
    /\ pc = "dl_keys"
    /\ IF IsFalsy(WrapStr(keys0))
       THEN keys' \in Perms(DOMAIN dict_)
       ELSE keys' = WrapStr(keys0).list
    /\ ki' = 1
    /\ pc' = "dl_for"
    /\ UNCHANGED << err, PY3K, dict0, keys0, dict_, dict2, finished, ret >>
    /\ UNCHANGED << rangeVars, dictVars, argVars >>

\* lines 269-273: the next selected key; line 270 raises KeyError for a key
\* the mapping does not have, and an error of line 272 leaves the function
DL_For ==
    /\ pc = "dl_for"
    /\ ki <= Len(keys)
    /\ LET orig_key == keys[ki] IN
       IF orig_key \notin DOMAIN dict_
       THEN /\ err' = "KeyError"
            /\ pc' = "dl_raised"
            /\ UNCHANGED << ki, dict2, finished >>
       ELSE IF IsElement(dict_[orig_key])
            THEN LET r == DictElement(dict_[orig_key], prefix, number_multiples) IN
                 IF r.exc # "none"
                 THEN /\ err' = r.exc
                      /\ pc' = "dl_raised"
                      /\ UNCHANGED << ki, dict2, finished >>
                 ELSE /\ dict2' = r.d
                      /\ finished' = FALSE
                      /\ pc' = "dl_while"
                      /\ UNCHANGED << err, ki >>
            ELSE /\ ki' = ki + 1
                 /\ UNCHANGED << pc, err, dict2, finished >>
    /\ UNCHANGED << PY3K, dict0, keys0, dict_, keys, ret >>
    /\ UNCHANGED << rangeVars, dictVars, argVars >>

\* line 274, and line 286 when the loop has ended
DL_While ==
    /\ pc = "dl_while"
    /\ IF finished
       THEN /\ dict_' = StoreResult(dict_, keys[ki], dict2)
            /\ ki' = ki + 1
            /\ pc' = "dl_for"
       ELSE /\ pc' = "dl_body"
            /\ UNCHANGED << dict_, ki >>
    /\ UNCHANGED << err, PY3K, dict0, keys0, keys, dict2, finished, ret >>
    /\ UNCHANGED << rangeVars, dictVars, argVars >>

\* lines 283-284: every value of d replaced by its dictElement
ConvertAll(d, pfx, nm) ==
    [ key \in DOMAIN d |-> PyDict(DictElement(d[key], pfx, nm).d) ]

\* the exceptions that lines 283-284 can raise on d
ConvertErrors(d, pfx, nm) ==
    { DictElement(d[key], pfx, nm).exc : key \in DOMAIN d } \ { "none" }

\* lines 275-284: one pass of the while loop.  In Python 3 dict2.keys() is a
\* view and [0] raises TypeError; in Python 2 it is a list in the dict's
\* arbitrary order and [0] raises IndexError when the dict is empty.  The
\* bare except of line 279 catches what lines 277-278 raise; lines 282-284
\* are outside the try.
DL_Body ==
    /\ pc = "dl_body"
    /\ IF PY3K \/ DOMAIN dict2 = {}
       THEN /\ finished' = TRUE
            /\ pc' = "dl_while"
            /\ UNCHANGED << err, dict2 >>
       ELSE \E key \in DOMAIN dict2 :
              IF DictElement(dict2[key], prefix, number_multiples).exc # "none"
              THEN /\ finished' = TRUE
                   /\ pc' = "dl_while"
                   /\ UNCHANGED << err, dict2 >>
              ELSE IF ConvertErrors(dict2, prefix, number_multiples) # {}
                   THEN /\ err' \in ConvertErrors(dict2, prefix, number_multiples)
                        /\ pc' = "dl_raised"
                        /\ UNCHANGED << dict2, finished >>
                   ELSE /\ dict2' = ConvertAll(dict2, prefix, number_multiples)
                        /\ pc' = "dl_while"
                        /\ UNCHANGED << err, finished >>
    /\ UNCHANGED << PY3K, dict0, keys0, dict_, keys, ki, ret >>
    /\ UNCHANGED << rangeVars, dictVars, argVars >>

\* line 288
DL_Return ==
    /\ pc = "dl_for"
    /\ ki > Len(keys)
    /\ ret' = dict_
    /\ pc' = "dl_done"
    /\ UNCHANGED << err, PY3K, dict0, keys0, dict_, keys, ki, dict2, finished >>
    /\ UNCHANGED << rangeVars, dictVars, argVars >>

(***************************************************************************)
(* Inputs of dictElementLoop                                               *)
(***************************************************************************)

MaxDepth == 2

MaxKeys == 2

TagA == << "a" >>
TagB == << "b" >>

LeafShapes(tag) ==
    { Leaf(tag, << SomeText >>, << >>),
      Leaf(tag, << >>, SomeAttrib),
      Leaf(tag, << >>, << >>) }

\* the nodes with children of depth at most d under tag: one child, or two
\* children of which at most one has children of its own
RECURSIVE Composites(_, _)
Composites(tag, d) ==
    IF d = 0 THEN { }
    ELSE LET deepA == Composites(TagA, d - 1)
             deepB == Composites(TagB, d - 1)
             firsts  == LeafShapes(TagA) \cup deepA
             seconds == LeafShapes(TagB) \cup deepB
         IN  { Node(tag, << c >>) : c \in firsts }
             \cup { Node(tag, << c1, c2 >>) : c1 \in LeafShapes(TagA), c2 \in seconds }
             \cup { Node(tag, << c1, c2 >>) : c1 \in deepA, c2 \in LeafShapes(TagB) }

Trees == LeafShapes(<< "r" >>) \cup Composites(<< "r" >>, MaxDepth)

KeyP == << "p" >>
KeyQ == << "q" >>
KeyZ == << "z" >>

\* the values of a mapping that are not nodes: a text, an attribute list
\* (empty or not), a mapping
PlainValues == { PyStr(SomeText), PyItems(<< >>), PyItems(SomeAttrib), PyDict(EmptyDict) }

LoopMappings ==
    { [ key \in { KeyP } |-> v ] : v \in { PyElem(t) : t \in Trees } \cup PlainValues }
    \cup { [ key \in { KeyP, KeyQ } |-> IF key = KeyP THEN PyElem(t) ELSE w ] :
             t \in Trees,
             w \in { PyStr(SomeText), PyItems(<< >>),
                     PyElem(Node(<< "r" >>, << Leaf(TagA, << SomeText >>, << >>) >>)) } }

LoopKeys ==
    { PyNone, PyStr(KeyP), PyStr(KeyQ) }
    \cup { PyList(l) : l \in SeqsUpTo({ KeyP, KeyQ, KeyZ }, MaxKeys) }

InitLoop ==
    /\ pc = "dl_keys"
    /\ err = "none"
    /\ PY3K \in BOOLEAN
    /\ dict0 \in LoopMappings
    /\ dict_ = dict0
    /\ keys0 \in LoopKeys
    /\ prefix \in { << >>, << TagA >> }
    /\ number_multiples \in BOOLEAN
    /\ keys = << >> /\ ki = 0 /\ dict2 = EmptyDict /\ finished = FALSE
    /\ ret = None
    /\ IdleRange
    /\ IdleDict

NextLoop == DL_Keys \/ DL_For \/ DL_While \/ DL_Body \/ DL_Return

SpecLoop == InitLoop /\ [][NextLoop]_vars

\* the interpreter keeps running the function: a step that can be taken is taken
FairSpecLoop == SpecLoop /\ WF_vars(NextLoop)

LoopEnded == pc \in { "dl_done", "dl_raised" }

\* the keys the call selects, from its argument keys
Selected ==
    IF "none" \in DOMAIN keys0 THEN DOMAIN dict0
    ELSE IF "str" \in DOMAIN keys0 THEN { keys0.str }
    ELSE IF Len(keys0.list) = 0 THEN DOMAIN dict0
    ELSE Range(keys0.list)

\* no node-typed value at any depth of a value
RECURSIVE NoNode(_)
NoNode(v) ==
    IF IsElement(v) THEN FALSE
    ELSE IF IsDict(v) THEN \A key \in DOMAIN v.map : NoNode(v.map[key])
    ELSE TRUE

\* the depth of the children under an Element
RECURSIVE Depth(_)
Depth(e) ==
    IF Len(e.children) = 0 THEN 0
    ELSE 1 + (CHOOSE m \in 0..MaxDepth + 1 :
                /\ \E j \in 1..Len(e.children) : Depth(e.children[j]) = m
                /\ \A j \in 1..Len(e.children) : Depth(e.children[j]) <= m)

\* C7 -- after dictElementLoop returns, the value at every selected key that
\* held a markup node is a structure of nested mappings with no node-typed
\* value at any depth.
C7_NoNodeRemains ==
    pc = "dl_done" =>
        \A key \in Selected \cap DOMAIN dict0 :
            IsElement(dict0[key]) => (IsDict(ret[key]) /\ NoNode(ret[key]))

\* C7 on the nodes whose children are all leaves
C7_DepthOne ==
    pc = "dl_done" =>
        \A key \in Selected \cap DOMAIN dict0 :
            (IsElement(dict0[key]) /\ Depth(dict0[key].node) <= 1) =>
                (IsDict(ret[key]) /\ NoNode(ret[key]))

\* C8 -- dictElementLoop never propagates an error raised while resolving a
\* selected key of the mapping: no exception leaves the call.
C8_NeverPropagates ==
    (Selected \subseteq DOMAIN dict0) => (pc # "dl_raised" /\ err = "none")

\* C9 -- dictElementLoop returns the mapping it was given and changes only
\* the values at selected keys that hold a markup node: the key set never
\* changes, the value at an unselected key and at a selected key holding no
\* node never changes, the selected keys are all keys when keys is omitted or
\* empty and the one key when keys is a string.
C9_Frame ==
    /\ DOMAIN dict_ = DOMAIN dict0
    /\ \A key \in DOMAIN dict0 :
          (key \notin Selected \/ ~IsElement(dict0[key])) => dict_[key] = dict0[key]
    /\ \A key \in DOMAIN dict0 :
          dict_[key] # dict0[key] => (IsElement(dict0[key]) /\ IsDict(dict_[key]))
    /\ pc # "dl_keys" => Range(keys) = Selected
    /\ pc = "dl_done" => ret = dict_

C9_Witness ==
    /\ pc = "dl_done"
    /\ "str" \in DOMAIN keys0
    /\ keys0.str = KeyP
    /\ DOMAIN dict0 = { KeyP, KeyQ }
    /\ IsElement(dict0[KeyQ])
    /\ ret[KeyQ] = dict0[KeyQ]
    /\ IsDict(ret[KeyP])

\* C10 -- on every execution the while loop ends for each key and the call
\* ends (the node values of the model are finite trees).
C10_Terminates == <>LoopEnded

\* C10 under Python 3
C10_TerminatesPy3 == PY3K => <>LoopEnded

====
